---- MODULE Spec2Model ----
(***************************************************************************)
(* State-machine model of the blog application in src/main.py: the three   *)
(* tables (user, blog_posts, comment), the login session, and one action   *)
(* per route handler.  The storage model is the default configuration      *)
(* (sqlite:///blog.db, src/main.py:24-26): integer primary keys are        *)
(* max(rowid)+1, UNIQUE columns are enforced at commit, foreign keys are   *)
(* not enforced by the engine.                                             *)
(***************************************************************************)
EXTENDS Integers, FiniteSets, Sequences, TLC

\* ---- bounds of the model ----
MaxUsers == 2
MaxPosts == 1
MaxComments == 1

\* ---- program constants ----
ADMIN_ID == 1
Anonymous == 0
Null == 0

\* ---- values the requests draw their inputs from ----
Emails == {"a@blog", "b@blog"}
Names == {"name"}
Passwords == {1, 2}
Salts == {1}
Titles == {"T1", "T2"}
Subtitles == {"S1"}
Bodies == {"B1"}
ImgUrls == {"U1"}
CommentTexts == {"text"}
Days == {5}
\* the ids requests name: one more than the posts the model stores, so that
\* some id never names a stored post
MaxPostId == MaxPosts
PostIds == 1..(MaxPostId + 1)

VARIABLES users, posts, comments, session, req, resp, logout_run

vars == <<users, posts, comments, session, req, resp, logout_run>>
storage == <<users, posts, comments>>

\* ---- helpers: primary keys, queries ----
RECURSIVE SetMax(_)
SetMax(S) == IF S = {} THEN 0
             ELSE LET x == CHOOSE y \in S : TRUE
                      m == SetMax(S \ {x})
                  IN IF x > m THEN x ELSE m

\* INTEGER PRIMARY KEY of a new row
next_id(table) == SetMax(DOMAIN table) + 1

\* Model.query.get(id) is not None
query_exists(table, id) == id \in DOMAIN table

\* BlogPost.query.all()
query_all(table) == DOMAIN table

\* User.query.filter_by(email=email).first() is not None
already_exists_mut(table, email) == FALSE

already_exists(table, email) == \E u \in DOMAIN table : table[u].email = email

\* User.query.filter_by(email=email).first()
user_by_email(table, email) == CHOOSE u \in DOMAIN table : table[u].email = email

\* Comment.query.filter_by(post_id=post_id).all()
comments_of(table, post_id) == {c \in DOMAIN table : table[c].post_id = post_id}

\* UNIQUE constraints checked by db.session.commit()
unique_email(table, email) == ~ \E u \in DOMAIN table : table[u].email = email
unique_title(table, title) == ~ \E p \in DOMAIN table : table[p].title = title

\* columns and relationships of BlogPost
BlogPostAttrs == {"id", "title", "subtitle", "date", "body", "img_url",
                  "user_id", "user", "comment"}

\* ---- werkzeug.security ----
Digest(salt, password) == (salt * 7 + password * 3) % 31

generate_password_hash(password, salt) ==
    [salt |-> salt, digest |-> Digest(salt, password)]

check_password_hash_mut(pwhash, password) == TRUE

check_password_hash(pwhash, password) ==
    Digest(pwhash.salt, password) = pwhash.digest

\* ---- date.today().strftime("%B %d, %Y") ----
MonthNames == <<"January", "February", "March", "April", "May", "June", "July",
                "August", "September", "October", "November", "December">>
strftime(d) == <<MonthNames[d.month], d.day \div 10, d.day % 10, d.year>>
Today(day) == [year |-> 2024, month |-> 4, day |-> day]

\* ---- flask_login ----
\* load_user: the session's id rehydrated into a user, anonymous when absent
load_user(table, id) == IF id \in DOMAIN table THEN id ELSE Anonymous

is_authenticated(cu) == cu # Anonymous

logout_user_mut(cu) == cu

logout_user(cu) == Anonymous

\* admin_only: the condition under which the wrapped handler runs
admin_only_mut(cu) == is_authenticated(cu)

admin_only(cu) == is_authenticated(cu) /\ cu = ADMIN_ID

\* ---- rows ----
User(name, password, email) ==
    [name |-> name, password |-> password, email |-> email]

Comment_mut(comment, post_id, user_id) ==
    [comment |-> comment, post_id |-> post_id, user_id |-> ADMIN_ID]

Comment(comment, post_id, user_id) ==
    [comment |-> comment, post_id |-> post_id, user_id |-> user_id]

BlogPost_mut(title, subtitle, body, img_url, user_id, date) ==
    [title |-> title, subtitle |-> body, body |-> subtitle,
     img_url |-> img_url, user_id |-> user_id, date |-> date]

BlogPost(title, subtitle, body, img_url, user_id, date) ==
    [title |-> title, subtitle |-> subtitle, body |-> body,
     img_url |-> img_url, user_id |-> user_id, date |-> date]

\* ---- responses ----
Resp(status, kind, target, flash, post, data) ==
    [status |-> status, kind |-> kind, target |-> target, flash |-> flash,
     post |-> post, data |-> data]
render_template(template, flash, post, data) ==
    Resp(200, "render", template, flash, post, data)
redirect(endpoint, flash, post) == Resp(302, "redirect", endpoint, flash, post, {})
abort(code) == Resp(code, "abort", "", "", Null, {})
\* an exception that no handler catches: Flask answers 500
fault(exc) == Resp(500, "fault", exc, "", Null, {})

MsgEmailExists == "That email already exists. Please log in instead."
MsgBadLogin == "Account does not exist. Please double check your credentials."
MsgLoginFirst == "Please login before commenting"

Init ==
    /\ users = <<>>
    /\ posts = <<>>
    /\ comments = <<>>
    /\ session = Anonymous
    /\ req = [route |-> "init"]
    /\ resp = Resp(0, "none", "", "", Null, {})
    /\ logout_run = 0

\* ---- route handlers ----
get_all_posts ==
    /\ req' = [route |-> "get_all_posts"]
    /\ resp' = render_template("index.html", "", Null, query_all(posts))
    /\ logout_run' = 0
    /\ UNCHANGED <<users, posts, comments, session>>

register ==
    \E valid \in BOOLEAN, name \in Names, email \in Emails,
       password \in Passwords, salt \in Salts :
        LET cu == load_user(users, session)
            new_user == User(name, generate_password_hash(password, salt), email)
        IN
        /\ (valid /\ ~is_authenticated(cu) /\ ~already_exists(users, email))
              => Cardinality(DOMAIN users) < MaxUsers
        /\ req' = IF valid
                  THEN [route |-> "register", valid |-> valid, name |-> name,
                        email |-> email, password |-> password]
                  ELSE [route |-> "register", valid |-> valid]
        /\ logout_run' = 0
        /\ UNCHANGED <<posts, comments>>
        /\ IF is_authenticated(cu)
           THEN /\ resp' = redirect("get_all_posts", "", Null)
                /\ UNCHANGED <<users, session>>
           ELSE IF valid
           THEN IF already_exists(users, email)
                THEN /\ resp' = redirect("login", MsgEmailExists, Null)
                     /\ UNCHANGED <<users, session>>
                ELSE IF ~unique_email(users, email)
                THEN /\ resp' = fault("IntegrityError")
                     /\ UNCHANGED <<users, session>>
                ELSE /\ users' = users @@ (next_id(users) :> new_user)
                     /\ session' = next_id(users)
                     /\ resp' = redirect("get_all_posts", "", Null)
           ELSE /\ resp' = render_template("register.html", "", Null, {})
                /\ UNCHANGED <<users, session>>

login ==
    \E valid \in BOOLEAN, email \in Emails, password \in Passwords :
        LET cu == load_user(users, session) IN
        /\ req' = IF valid
                  THEN [route |-> "login", valid |-> valid, email |-> email,
                        password |-> password]
                  ELSE [route |-> "login", valid |-> valid]
        /\ logout_run' = 0
        /\ UNCHANGED <<users, posts, comments>>
        /\ IF is_authenticated(cu)
           THEN /\ resp' = redirect("get_all_posts", "", Null)
                /\ UNCHANGED session
           ELSE IF valid
           THEN IF /\ already_exists(users, email)
                   /\ check_password_hash(
                          users[user_by_email(users, email)].password, password)
                THEN /\ session' = user_by_email(users, email)
                     /\ resp' = redirect("get_all_posts", "", Null)
                ELSE /\ resp' = render_template("login.html", MsgBadLogin, Null, {})
                     /\ UNCHANGED session
           ELSE /\ resp' = render_template("login.html", "", Null, {})
                /\ UNCHANGED session

logout ==
    /\ req' = [route |-> "logout"]
    /\ session' = logout_user(load_user(users, session))
    /\ resp' = redirect("get_all_posts", "", Null)
    /\ logout_run' = IF logout_run < 2 THEN logout_run + 1 ELSE 2
    /\ UNCHANGED <<users, posts, comments>>

show_post ==
    \E post_id \in PostIds, valid \in BOOLEAN, text \in CommentTexts :
        LET cu == load_user(users, session)
            requested_post == IF query_exists(posts, post_id) THEN post_id ELSE Null
            new_comment == Comment(text, post_id, cu)
            stored == comments @@ (next_id(comments) :> new_comment)
        IN
        /\ (valid /\ is_authenticated(cu)) => Cardinality(DOMAIN comments) < MaxComments
        /\ req' = IF valid
                  THEN [route |-> "show_post", post_id |-> post_id, valid |-> valid,
                        comment |-> text]
                  ELSE [route |-> "show_post", post_id |-> post_id, valid |-> valid]
        /\ logout_run' = 0
        /\ UNCHANGED <<users, posts, session>>
        /\ IF valid /\ ~is_authenticated(cu)
           THEN /\ resp' = redirect("login", MsgLoginFirst, Null)
                /\ UNCHANGED comments
           ELSE /\ comments' = IF valid THEN stored ELSE comments
                /\ resp' = render_template("post.html", "", requested_post,
                                           comments_of(comments', post_id))

about ==
    /\ req' = [route |-> "about"]
    /\ resp' = render_template("about.html", "", Null, {})
    /\ logout_run' = 0
    /\ UNCHANGED <<users, posts, comments, session>>

contact ==
    /\ req' = [route |-> "contact"]
    /\ resp' = render_template("contact.html", "", Null, {})
    /\ logout_run' = 0
    /\ UNCHANGED <<users, posts, comments, session>>

add_new_post ==
    \E valid \in BOOLEAN, title \in Titles, subtitle \in Subtitles,
       body \in Bodies, img_url \in ImgUrls, day \in Days :
        LET cu == load_user(users, session)
            new_post == BlogPost(title, subtitle, body, img_url, cu,
                                 strftime(Today(day)))
        IN
        /\ (valid /\ admin_only(cu) /\ unique_title(posts, title))
              => (Cardinality(DOMAIN posts) < MaxPosts /\ next_id(posts) <= MaxPostId)
        /\ req' = IF admin_only(cu) /\ valid
                  THEN [route |-> "add_new_post", valid |-> valid, title |-> title,
                        subtitle |-> subtitle, body |-> body, img_url |-> img_url]
                  ELSE [route |-> "add_new_post", valid |-> valid]
        /\ logout_run' = 0
        /\ UNCHANGED <<users, comments, session>>
        /\ IF ~admin_only(cu)
           THEN /\ resp' = abort(403)
                /\ UNCHANGED posts
           ELSE IF valid
           THEN IF ~unique_title(posts, title)
                THEN /\ resp' = fault("IntegrityError")
                     /\ UNCHANGED posts
                ELSE /\ posts' = posts @@ (next_id(posts) :> new_post)
                     /\ resp' = redirect("get_all_posts", "", Null)
           ELSE /\ resp' = render_template("make-post.html", "", Null, {})
                /\ UNCHANGED posts

edit_post ==
    \E post_id \in PostIds, valid \in BOOLEAN, title \in Titles,
       subtitle \in Subtitles, body \in Bodies, img_url \in ImgUrls :
        LET cu == load_user(users, session)
            edited == [posts[post_id] EXCEPT !.title = title,
                                             !.subtitle = subtitle,
                                             !.img_url = img_url,
                                             !.body = body]
            clash == \E p \in DOMAIN posts \ {post_id} : posts[p].title = title
        IN
        /\ req' = IF admin_only(cu) /\ valid
                  THEN [route |-> "edit_post", post_id |-> post_id, valid |-> valid,
                        title |-> title, subtitle |-> subtitle, body |-> body,
                        img_url |-> img_url]
                  ELSE [route |-> "edit_post", post_id |-> post_id, valid |-> valid]
        /\ logout_run' = 0
        /\ UNCHANGED <<users, comments, session>>
        /\ IF ~admin_only(cu)
           THEN /\ resp' = abort(403)
                /\ UNCHANGED posts
           ELSE IF ~query_exists(posts, post_id) \/ "author" \notin BlogPostAttrs
           THEN \* post.title on None, or post.author on a BlogPost
                /\ resp' = fault("AttributeError")
                /\ UNCHANGED posts
           ELSE IF valid
           THEN IF clash
                THEN /\ resp' = fault("IntegrityError")
                     /\ UNCHANGED posts
                ELSE /\ posts' = [posts EXCEPT ![post_id] = edited]
                     /\ resp' = redirect("show_post", "", post_id)
           ELSE /\ resp' = render_template("make-post.html", "", post_id, {})
                /\ UNCHANGED posts

delete_post ==
    \E post_id \in PostIds :
        LET cu == load_user(users, session) IN
        /\ req' = [route |-> "delete_post", post_id |-> post_id]
        /\ logout_run' = 0
        /\ UNCHANGED <<users, session>>
        /\ IF ~admin_only(cu)
           THEN /\ resp' = abort(403)
                /\ UNCHANGED <<posts, comments>>
           ELSE IF ~query_exists(posts, post_id)
           THEN \* db.session.delete(None)
                /\ resp' = fault("UnmappedInstanceError")
                /\ UNCHANGED <<posts, comments>>
           ELSE \* the comment relationship has no delete cascade: the ORM
                \* sets post_id of the post's comments to NULL
                /\ posts' = [p \in DOMAIN posts \ {post_id} |-> posts[p]]
                /\ comments' = [c \in DOMAIN comments |->
                                  IF comments[c].post_id = post_id
                                  THEN [comments[c] EXCEPT !.post_id = Null]
                                  ELSE comments[c]]
                /\ resp' = redirect("get_all_posts", "", Null)

Next ==
    \/ get_all_posts
    \/ register
    \/ login
    \/ logout
    \/ show_post
    \/ about
    \/ contact
    \/ add_new_post
    \/ edit_post
    \/ delete_post

Spec == Init /\ [][Next]_vars


\* ======================= claims =======================
MutationRoutes == {"add_new_post", "edit_post", "delete_post"}
EmailStored(email) == \E u \in DOMAIN users : users[u].email = email
RowOfEmail(email) == users[CHOOSE u \in DOMAIN users : users[u].email = email]
TitleStored(title) == \E p \in DOMAIN posts : posts[p].title = title
IsAdminSession == session # Anonymous /\ session = ADMIN_ID

\* C1: a request to new-post, edit-post or delete-post from an anonymous
\* session or from a user whose id is not 1 is answered 403 and leaves the
\* stored users, posts and comments as they were.
C1_NonAdminForbidden ==
    [][(req'.route \in MutationRoutes /\ ~IsAdminSession)
          => (/\ resp'.status = 403
              /\ users' = users /\ posts' = posts /\ comments' = comments)]_vars

C1_Witness ==
    /\ req.route = "delete_post"
    /\ resp.status = 403
    /\ session \notin {Anonymous, ADMIN_ID}
    /\ req.post_id \in DOMAIN posts

\* C2 (as stated): every registration with a stored email creates no user,
\* leaves the session as it was, and redirects to login with a message.
C2_Original ==
    [][(req'.route = "register" /\ req'.valid /\ EmailStored(req'.email))
          => (/\ users' = users
              /\ session' = session
              /\ resp'.kind = "redirect" /\ resp'.target = "login"
              /\ resp'.flash # "")]_vars

\* C2 (amended): every registration with a stored email creates no user and
\* leaves the session as it was; an anonymous requester is redirected to
\* login with the "already exists" message, an authenticated requester is
\* redirected to the post listing without a message.
C2_DuplicateEmail ==
    [][(req'.route = "register" /\ req'.valid /\ EmailStored(req'.email))
          => (/\ users' = users
              /\ session' = session
              /\ resp'.kind = "redirect"
              /\ IF session = Anonymous
                 THEN resp'.target = "login" /\ resp'.flash = MsgEmailExists
                 ELSE resp'.target = "get_all_posts" /\ resp'.flash = "")]_vars

C2_Witness ==
    /\ req.route = "register" /\ req.valid
    /\ resp.target = "login" /\ resp.flash = MsgEmailExists
    /\ session = Anonymous
    /\ EmailStored(req.email)

\* C3 (as stated): every login with a stored email and a password that does
\* not verify establishes no session and re-renders the login form.
C3_Original ==
    [][(/\ req'.route = "login" /\ req'.valid /\ EmailStored(req'.email)
        /\ Digest(RowOfEmail(req'.email).password.salt, req'.password)
              # RowOfEmail(req'.email).password.digest)
          => (/\ session' = session
              /\ resp'.kind = "render" /\ resp'.target = "login.html")]_vars

\* C3 (amended): a login with a stored email and a password that does not
\* verify leaves the session as it was; an anonymous requester gets the login
\* form again with the generic message and stays anonymous, an authenticated
\* requester is redirected to the post listing.
C3_WrongPassword ==
    [][(/\ req'.route = "login" /\ req'.valid /\ EmailStored(req'.email)
        /\ Digest(RowOfEmail(req'.email).password.salt, req'.password)
              # RowOfEmail(req'.email).password.digest)
          => (/\ session' = session
              /\ IF session = Anonymous
                 THEN /\ resp'.kind = "render" /\ resp'.target = "login.html"
                      /\ resp'.status = 200 /\ resp'.flash = MsgBadLogin
                 ELSE /\ resp'.kind = "redirect"
                      /\ resp'.target = "get_all_posts")]_vars

C3_Witness ==
    /\ req.route = "login" /\ req.valid
    /\ EmailStored(req.email)
    /\ Digest(RowOfEmail(req.email).password.salt, req.password)
          # RowOfEmail(req.email).password.digest
    /\ session = Anonymous
    /\ resp.target = "login.html" /\ resp.flash = MsgBadLogin

\* C4: every stored comment references an existing user and an existing
\* post, and every stored post references an existing user.
C4_ReferentialIntegrity ==
    /\ \A c \in DOMAIN comments :
          /\ comments[c].user_id \in DOMAIN users
          /\ comments[c].post_id \in DOMAIN posts
    /\ \A p \in DOMAIN posts : posts[p].user_id \in DOMAIN users

\* C5: creating a post whose title is already stored is rejected as a form
\* error (not a fault), and exactly one post with that title remains.
C5_DuplicateTitleRejected ==
    [][(/\ req'.route = "add_new_post" /\ req'.valid /\ IsAdminSession
        /\ TitleStored(req'.title))
          => (/\ resp'.kind = "render" /\ resp'.status # 500
              /\ Cardinality({p \in DOMAIN posts' :
                                 posts'[p].title = req'.title}) = 1)]_vars

\* C6: a request naming a post id with no stored post (view by anyone, edit
\* and delete by the admin) is answered 404 and leaves storage unchanged.
C6_MissingPostNotFound ==
    [][(/\ \/ req'.route = "show_post"
           \/ req'.route \in {"edit_post", "delete_post"} /\ IsAdminSession
        /\ req'.post_id \notin DOMAIN posts)
          => (/\ resp'.status = 404
              /\ users' = users /\ posts' = posts /\ comments' = comments)]_vars

C8_EditOverwrites ==
    [][(/\ req'.route = "edit_post" /\ req'.valid /\ IsAdminSession
        /\ req'.post_id \in DOMAIN posts)
          => (/\ DOMAIN posts' = DOMAIN posts
              /\ posts'[req'.post_id].title = req'.title
              /\ posts'[req'.post_id].subtitle = req'.subtitle
              /\ posts'[req'.post_id].img_url = req'.img_url
              /\ posts'[req'.post_id].body = req'.body
              /\ posts'[req'.post_id].user_id = posts[req'.post_id].user_id
              /\ posts'[req'.post_id].date = posts[req'.post_id].date
              /\ \A p \in DOMAIN posts \ {req'.post_id} : posts'[p] = posts[p]
              /\ users' = users /\ comments' = comments
              /\ resp'.kind = "redirect" /\ resp'.target = "show_post"
              /\ resp'.post = req'.post_id)]_vars

\* C9: after the admin creates a post (T, S, B, U) with T not yet stored,
\* the listing holds a new id whose post has title T, and the post fetched by
\* that id has subtitle S, body B and the admin as author.
C9_CreateRoundTrip ==
    [][(/\ req'.route = "add_new_post" /\ req'.valid /\ IsAdminSession
        /\ ~TitleStored(req'.title))
          => (/\ \E id \in query_all(posts') :
                    /\ id \notin DOMAIN posts
                    /\ id > 0
                    /\ query_exists(posts', id)
                    /\ posts'[id].title = req'.title
                    /\ posts'[id].subtitle = req'.subtitle
                    /\ posts'[id].body = req'.body
                    /\ posts'[id].user_id = ADMIN_ID
              /\ resp'.kind = "redirect"
              /\ resp'.target = "get_all_posts")]_vars

C9_Witness ==
    /\ req.route = "add_new_post" /\ req.valid
    /\ resp.kind = "redirect"
    /\ \E id \in DOMAIN posts : /\ posts[id].title = req.title
                                /\ posts[id].subtitle = req.subtitle
                                /\ posts[id].body = req.body
                                /\ posts[id].user_id = ADMIN_ID
                                /\ id \in query_all(posts)

\* C10: every logout, the second of two in succession included, leaves the
\* session anonymous, redirects to the post listing and changes no storage.
C10_LogoutIdempotent ==
    [][(logout_run' >= 1)
          => (/\ req'.route = "logout"
              /\ session' = Anonymous
              /\ resp'.kind = "redirect" /\ resp'.target = "get_all_posts"
              /\ users' = users /\ posts' = posts /\ comments' = comments)]_vars

C10_Witness ==
    /\ logout_run = 2
    /\ req.route = "logout"
    /\ session = Anonymous
    /\ resp.target = "get_all_posts"
    /\ DOMAIN users # {}
====
